---------------------------- MODULE Spec2Model ----------------------------
(***************************************************************************)
(* A model of src/main.py: the entropy scorer _score_crop, the crop search *)
(* smart_crop_resize and the archive writer build_zip.                     *)
(*                                                                         *)
(* Python's float is an IEEE-754 binary64.  The crop size (lines 37-45)    *)
(* and the candidate offsets (np.linspace, lines 56 and 68) are computed   *)
(* in floats and then truncated, so the model carries binary64 arithmetic  *)
(* exactly: a float is a 53-bit mantissa held as a two-limb natural        *)
(* number and a binary exponent, and every operation rounds to nearest,    *)
(* ties to even.                                                           *)
(***************************************************************************)
EXTENDS Integers, Sequences, FiniteSets

(***************************************************************************)
(* Bounds of the model.                                                    *)
(***************************************************************************)
MaxSrcW == 9
MaxSrcH == 7
MaxTargetW == 9
MaxTargetH == 7
MaxMaxOffset == 400
MaxLabelLen == 2
MaxResults == 2

(***************************************************************************)
(* Program constants.                                                      *)
(***************************************************************************)
MaxCandidates == 25
Bins == 32
RangeHi == 255
ContrastDen == 100
MantBits == 53

Min(a, b) == IF a < b THEN a ELSE b

\* the number of bits of n >= 0
RECURSIVE IntBitLen(_)
IntBitLen(n) == IF n = 0 THEN 0 ELSE 1 + IntBitLen(n \div 2)

(***************************************************************************)
(* Naturals below 2^60, wider than the model checker's integers: the pair  *)
(* [hi, lo] is hi * Base + lo with 0 <= lo < Base.                         *)
(***************************************************************************)
Base == 2^30
LimbBits == IntBitLen(Base) - 1

WZero == [hi |-> 0, lo |-> 0]

WOfInt(n) == [hi |-> n \div Base, lo |-> n % Base]

\* 2 * w + bit
WDouble(w, bit) ==
    LET l == 2 * w.lo + bit
    IN  [hi |-> 2 * w.hi + l \div Base, lo |-> l % Base]

\* floor(w / 2)
WHalf(w) == [hi |-> w.hi \div 2, lo |-> w.lo \div 2 + (w.hi % 2) * (Base \div 2)]

WAdd(a, b) ==
    LET l == a.lo + b.lo
    IN  [hi |-> a.hi + b.hi + l \div Base, lo |-> l % Base]

\* a - b for a >= b
WSub(a, b) ==
    IF a.lo >= b.lo THEN [hi |-> a.hi - b.hi, lo |-> a.lo - b.lo]
    ELSE [hi |-> a.hi - b.hi - 1, lo |-> a.lo + Base - b.lo]

WGreater(a, b) == a.hi > b.hi \/ (a.hi = b.hi /\ a.lo > b.lo)

\* w * c for a small integer c >= 0, by doubling
RECURSIVE WMulSmall(_, _)
WMulSmall(w, c) ==
    IF c = 0 THEN WZero
    ELSE LET h == WDouble(WMulSmall(w, c \div 2), 0)
         IN  IF c % 2 = 1 THEN WAdd(h, w) ELSE h

\* floor(w / 2^k), a small integer
WShrInt(w, k) ==
    IF k >= 2 * LimbBits THEN 0
    ELSE IF k >= LimbBits THEN w.hi \div 2^(k - LimbBits)
    ELSE w.hi * 2^(LimbBits - k) + w.lo \div 2^k

(***************************************************************************)
(* binary64: the float [m, e] is m * 2^e with 2^52 <= m < 2^53, or m = 0.  *)
(* Only non-negative floats occur in the model.                            *)
(***************************************************************************)
FZero == [m |-> WZero, e |-> 0]

\* w has more than MantBits bits
TooWide(w) == w.hi >= 2^(MantBits - LimbBits)

\* (q + a fraction below its last bit that is zero iff guard = 0 and
\* ~sticky) * 2^e, rounded to MantBits bits, to nearest, ties to even
RECURSIVE RoundShift(_, _, _, _)
RoundShift(q, e, guard, sticky) ==
    IF TooWide(q)
    THEN RoundShift(WHalf(q), e + 1, q.lo % 2, sticky \/ guard = 1)
    ELSE LET m == IF guard = 1 /\ (sticky \/ q.lo % 2 = 1)
                  THEN WAdd(q, WOfInt(1)) ELSE q
         IN  IF TooWide(m)
             THEN [m |-> WHalf(m), e |-> e + 1]
             ELSE [m |-> m, e |-> e]

\* the long division of rem / b, one quotient bit a step, until the quotient
\* q has MantBits + 1 bits; f counts the bits after the binary point
RECURSIVE DivBits(_, _, _, _)
DivBits(q, rem, b, f) ==
    IF TooWide(q) THEN RoundShift(q, -f, 0, rem # 0)
    ELSE LET r2  == 2 * rem
             bit == IF r2 >= b THEN 1 ELSE 0
         IN  DivBits(WDouble(q, bit), r2 - bit * b, b, f + 1)

\* a / b for integers a >= 0, b >= 1 (Python's int / int)
FDivInt(a, b) ==
    IF a = 0 THEN FZero ELSE DivBits(WOfInt(a \div b), a % b, b, 0)

\* c * x for an integer c >= 0 (Python's int * float)
FMulInt(c, x) ==
    IF c = 0 \/ x.m = WZero THEN FZero
    ELSE RoundShift(WMulSmall(x.m, c), x.e, 0, FALSE)

\* the long division of r / m for wide naturals r < m
RECURSIVE DivWide(_, _, _, _, _)
DivWide(q, r, m, f, e) ==
    IF TooWide(q) THEN RoundShift(q, -f - e, 0, r # WZero)
    ELSE LET r2 == WDouble(r, 0)
             lt == WGreater(m, r2)
         IN  DivWide(WDouble(q, IF lt THEN 0 ELSE 1),
                     IF lt THEN r2 ELSE WSub(r2, m), m, f + 1, e)

\* c / x for an integer 0 <= c < 2^23 and a float x > 0 (Python's
\* int / float).  The division starts at c * 2^k, which has as many bits as
\* the mantissa of x, so that the first quotient bit is the integer part.
FIntDiv(c, x) ==
    IF c = 0 THEN FZero
    ELSE LET k  == MantBits - IntBitLen(c)
             r0 == [hi |-> c * 2^(k - LimbBits), lo |-> 0]
             lt == WGreater(x.m, r0)
         IN  DivWide(WOfInt(IF lt THEN 0 ELSE 1),
                     IF lt THEN r0 ELSE WSub(r0, x.m), x.m, k, x.e)

\* x > y
FGreater(x, y) ==
    IF x.m = WZero THEN FALSE
    ELSE IF y.m = WZero THEN TRUE
    ELSE x.e > y.e \/ (x.e = y.e /\ WGreater(x.m, y.m))

\* int(x): truncation, which is the floor of a non-negative float (every
\* float truncated here is below 2^31, so its exponent is negative)
FTrunc(x) ==
    IF x.m = WZero THEN 0 ELSE WShrInt(x.m, -x.e)

(***************************************************************************)
(* np.linspace(0, max_offset, num, dtype=int): step = max_offset/(num-1),  *)
(* the k-th sample is k * step in floats, the last one is set to           *)
(* max_offset, and the samples are truncated to integers.                  *)
(***************************************************************************)
\* a variant that always asks for MaxCandidates samples
LinspaceNumFixed(maxOff) == MaxCandidates

\* num=min(25, max_offset + 1)
LinspaceNum(maxOff) == Min(MaxCandidates, maxOff + 1)

Linspace(maxOff) ==
    LET num  == LinspaceNum(maxOff)
        step == FDivInt(maxOff, num - 1)
    IN  IF num = 1 THEN <<0>>
        ELSE [k \in 1..num |->
                 IF k = num THEN maxOff ELSE FTrunc(FMulInt(k - 1, step))]

(***************************************************************************)
(* _score_crop.  A score is a float; the model keeps the finite ones in    *)
(* fixed point, as integers in units of 1/Scale, and the two special       *)
(* values that occur, NaN and -inf, by kind.                               *)
(***************************************************************************)
Scale == 2^14
FracBits == IntBitLen(Scale) - 1

Num(v) == [kind |-> "num", v |-> v]
NaN == [kind |-> "nan", v |-> 0]
NegInf == [kind |-> "ninf", v |-> 0]

\* a > b on floats: false when either side is NaN
ScoreGreater(a, b) ==
    /\ a.kind = "num"
    /\ \/ b.kind = "ninf"
       \/ b.kind = "num" /\ a.v > b.v

\* the sum of f[x] over x in S
RECURSIVE SumOver(_, _)
SumOver(f, S) ==
    IF S = {} THEN 0
    ELSE LET x == CHOOSE y \in S : TRUE IN f[x] + SumOver(f, S \ {x})

\* the fraction bits of log2(x / Scale) for Scale <= x < 2 * Scale, by
\* repeated squaring
RECURSIVE Log2Frac(_, _)
Log2Frac(x, i) ==
    IF i = 0 THEN 0
    ELSE LET sq == (x * x) \div Scale
         IN  IF sq >= 2 * Scale
             THEN 2^(i - 1) + Log2Frac(sq \div 2, i - 1)
             ELSE Log2Frac(sq, i - 1)

\* log2(n) * Scale for an integer n >= 1
Log2Fix(n) ==
    LET e == IntBitLen(n) - 1
    IN  e * Scale + Log2Frac((n * Scale) \div 2^e, FracBits)

\* floor(sqrt(n)), by bisection on lo <= sqrt(n) < hi
RECURSIVE IsqrtIn(_, _, _)
IsqrtIn(n, lo, hi) ==
    IF hi - lo <= 1 THEN lo
    ELSE LET mid == (lo + hi) \div 2
         IN  IF mid * mid <= n THEN IsqrtIn(n, mid, hi) ELSE IsqrtIn(n, lo, mid)

Isqrt(n) == IsqrtIn(n, 0, 2^15)

\* the bin of np.histogram(bins=Bins, range=(0, RangeHi)) that holds v: the
\* bins are equal and half-open, the last one closed
BinOf(v) == Min((v * Bins) \div RangeHi, Bins - 1)

\* arr is the luminance array, a function from pixel positions to 0..RangeHi
ScoreCrop(arr) ==
    LET n        == Cardinality(DOMAIN arr)
        Count(b) == Cardinality({p \in DOMAIN arr : BinOf(arr[p]) = b})
        used     == {BinOf(arr[p]) : p \in DOMAIN arr}
        \* density=True: hist[b] = Count(b) / (n * (RangeHi / Bins)); the term
        \* -hist[b] * log2(hist[b]) of the bins with hist[b] > 0
        term     == [b \in used |->
                        (Bins * Count(b) * (Log2Fix(RangeHi * n) - Log2Fix(Bins * Count(b))))
                            \div (RangeHi * n)]
        entropy  == SumOver(term, used)
        vals     == {arr[p] : p \in DOMAIN arr}
        times    == [v \in vals |-> Cardinality({p \in DOMAIN arr : arr[p] = v})]
        sum      == SumOver([v \in vals |-> v * times[v]], vals)
        sumSq    == SumOver([v \in vals |-> v * v * times[v]], vals)
        \* std = sqrt(n * sumSq - sum^2) / n, weighted by 1 / ContrastDen
        contrast == (Isqrt(n * sumSq - sum * sum) * Scale) \div (ContrastDen * n)
    IN  IF n = 0 THEN NaN ELSE Num(entropy + contrast)

(***************************************************************************)
(* smart_crop_resize, lines 37-45: the crop size.                          *)
(***************************************************************************)
TargetRatio(tw, th) == FDivInt(tw, th)

SrcRatio(sw, sh) == FDivInt(sw, sh)

\* src_ratio > target_ratio: the x-axis is the one reduced
IsWide(srcRatio, targetRatio) == FGreater(srcRatio, targetRatio)

\* a variant that rounds the crop width up instead of truncating it
CropWidthCeil(isWide, sw, sh, targetRatio) ==
    LET x == FMulInt(sh, targetRatio)
        t == FTrunc(x)
    IN  IF ~isWide THEN sw
        ELSE IF FGreater(x, FDivInt(t, 1)) THEN t + 1 ELSE t

\* crop_w, lines 42 and 44
CropWidth(isWide, sw, sh, targetRatio) ==
    IF isWide THEN FTrunc(FMulInt(sh, targetRatio)) ELSE sw

\* crop_h, lines 41 and 45
CropHeight(isWide, sw, sh, targetRatio) ==
    IF isWide THEN sh ELSE FTrunc(FIntDiv(sw, targetRatio))

\* a variant that forgets the width of the crop
MaxOffsetOfNoCrop(srcDim, cropDim) == srcDim

\* max_offset, lines 55 and 67
MaxOffsetOf(srcDim, cropDim) == srcDim - cropDim

(***************************************************************************)
(* The source images.  Their size is srcW x srcH; their luminance is one   *)
(* of two patterns: a bright lower-right quarter on black, and a bright    *)
(* first column and first row on black.  Either is one flat colour when    *)
(* the image is a single row or column.                                    *)
(***************************************************************************)
Images == {"corner", "stripe"}

Pixel(im, x, y, sw, sh) ==
    CASE im = "corner" -> IF 2 * x >= sw /\ 2 * y >= sh THEN 255 ELSE 0
      [] im = "stripe" -> IF x = 0 \/ y = 0 THEN 255 ELSE 0

\* gray[:, o : o + cw] when the x-axis is reduced, gray[o : o + ch, :]
\* otherwise: the luminance array of the candidate at offset o
Region(im, sw, sh, isWide, o, cw, ch) ==
    LET pos == IF isWide
               THEN {q \in (0..(sw - 1)) \X (0..(sh - 1)) : o <= q[1] /\ q[1] < o + cw}
               ELSE {q \in (0..(sw - 1)) \X (0..(sh - 1)) : o <= q[2] /\ q[2] < o + ch}
    IN  [q \in pos |-> Pixel(im, q[1], q[2], sw, sh)]

\* the box handed to rgb_img.crop, lines 65 and 77, as a crop window
WindowAt(isWide, o, cw, ch) ==
    IF isWide THEN [x |-> o, y |-> 0, w |-> cw, h |-> ch]
    ELSE [x |-> 0, y |-> o, w |-> cw, h |-> ch]

FullWindow(sw, sh) == [x |-> 0, y |-> 0, w |-> sw, h |-> sh]

NoWindow == [x |-> 0, y |-> 0, w |-> 0 - 1, h |-> 0 - 1]

(***************************************************************************)
(* build_zip: labels are strings over a small alphabet, held as sequences  *)
(* of characters so that str.lower() can be computed.                      *)
(***************************************************************************)
Chars == {"S", "s", "1"}

LowerChar(c) == IF c = "S" THEN "s" ELSE c

LowerStr(str) == [i \in 1..Len(str) |-> LowerChar(str[i])]

\* a variant that keeps the label's case
EntryNameNoLower(label) == label \o <<".", "p", "n", "g">>

\* f"{label.lower()}.png"
EntryName(label) == LowerStr(label) \o <<".", "p", "n", "g">>

\* img.save(buffer, format="PNG"): the encoded bytes of an image
PngBytes(image) == [format |-> "PNG", pixels |-> image]

RECURSIVE SeqsUpTo(_, _)
SeqsUpTo(S, n) ==
    IF n = 0 THEN {<<>>}
    ELSE LET shorter == SeqsUpTo(S, n - 1)
         IN  shorter \cup {Append(q, x) : q \in shorter, x \in S}

Labels == SeqsUpTo(Chars, MaxLabelLen) \ {<<>>}

\* a dict: an ordered sequence of (key, value) pairs with distinct keys; the
\* i-th result's image is named by its position
ResultSets ==
    {[i \in 1..Len(ls) |-> [label |-> ls[i], image |-> i]] :
        ls \in {q \in SeqsUpTo(Labels, MaxResults) :
                    \A i, j \in 1..Len(q) : i # j => q[i] # q[j]}}

VARIABLES
    pc,         \* the position in the operation
    srcW, srcH, \* rgb_img.size
    targetW, targetH,
    wide,       \* src_ratio > target_ratio
    cropW, cropH,
    path,       \* "none", "fast" or "search"
    img,        \* the luminance pattern of the source
    maxOffset, offsets,
    idx,        \* the candidate the scan is at, from 1
    bestOff, bestScore,
    scores,     \* the scores _score_crop has returned, in scan order
    box,        \* the window the result was resampled from
    outcome,    \* "none", "image" or the exception raised
    images,     \* build_zip's argument
    zf          \* the entries written to the archive

vars == <<pc, srcW, srcH, targetW, targetH, wide, cropW, cropH, path, img,
          maxOffset, offsets, idx, bestOff, bestScore, scores, box, outcome,
          images, zf>>

sizeVars == <<srcW, srcH, targetW, targetH>>
cropVars == <<wide, cropW, cropH>>
scanVars == <<img, maxOffset, offsets, idx, bestOff, bestScore, scores>>
zipVars == <<images, zf>>

NoCrop == wide = FALSE /\ cropW = 0 /\ cropH = 0 /\ path = "none"

NoScan ==
    /\ img = "none" /\ maxOffset = 0 /\ offsets = <<>> /\ idx = 0
    /\ bestOff = 0 /\ bestScore = NegInf /\ scores = <<>>

NoResult == box = NoWindow /\ outcome = "none"

NoZip == images = <<>> /\ zf = <<>>

(***************************************************************************)
(* smart_crop_resize(image, target_w, target_h)                            *)
(***************************************************************************)
Init ==
    /\ pc = "call"
    /\ srcW \in 1..MaxSrcW
    /\ srcH \in 1..MaxSrcH
    /\ targetW \in 0..MaxTargetW
    /\ targetH \in 0..MaxTargetH
    /\ NoCrop /\ NoScan /\ NoResult /\ NoZip

\* line 37 with target_h = 0
DivideByZero ==
    /\ pc = "call"
    /\ targetH = 0
    /\ pc' = "done"
    /\ outcome' = "ZeroDivisionError"
    /\ UNCHANGED <<sizeVars, cropVars, path, scanVars, box, zipVars>>

\* lines 37-45
ComputeCrop ==
    /\ pc = "call"
    /\ targetH # 0
    /\ LET targetRatio == TargetRatio(targetW, targetH)
           isWide      == IsWide(SrcRatio(srcW, srcH), targetRatio)
       IN  /\ wide' = isWide
           /\ cropW' = CropWidth(isWide, srcW, srcH, targetRatio)
           /\ cropH' = CropHeight(isWide, srcW, srcH, targetRatio)
    /\ pc' = "sized"
    /\ UNCHANGED <<sizeVars, path, scanVars, box, outcome, zipVars>>

\* lines 48-49
FastPath ==
    /\ pc = "sized"
    /\ cropW = srcW /\ cropH = srcH
    /\ path' = "fast"
    /\ box' = FullWindow(srcW, srcH)
    /\ outcome' = "image"
    /\ pc' = "done"
    /\ UNCHANGED <<sizeVars, cropVars, scanVars, zipVars>>

\* lines 51, 54-58 and 66-70
BeginSearch ==
    /\ pc = "sized"
    /\ ~(cropW = srcW /\ cropH = srcH)
    /\ path' = "search"
    /\ \E im \in Images : img' = im
    /\ maxOffset' = IF wide THEN MaxOffsetOf(srcW, cropW) ELSE MaxOffsetOf(srcH, cropH)
    /\ offsets' = Linspace(maxOffset')
    /\ idx' = 1
    /\ bestOff' = 0
    /\ bestScore' = NegInf
    /\ scores' = <<>>
    /\ pc' = "scan"
    /\ UNCHANGED <<sizeVars, cropVars, box, outcome, zipVars>>

\* one iteration of the loop, lines 59-64 and 71-76
ScoreCandidate ==
    /\ pc = "scan"
    /\ idx <= Len(offsets)
    /\ LET o     == offsets[idx]
           score == ScoreCrop(Region(img, srcW, srcH, wide, o, cropW, cropH))
       IN  /\ scores' = Append(scores, score)
           /\ IF ScoreGreater(score, bestScore)
              THEN bestScore' = score /\ bestOff' = o
              ELSE UNCHANGED <<bestScore, bestOff>>
    /\ idx' = idx + 1
    /\ UNCHANGED <<pc, sizeVars, cropVars, path, img, maxOffset, offsets, box,
                   outcome, zipVars>>

\* lines 65 or 77, and 79, for a crop and a target that are not empty
CropAndResize ==
    /\ pc = "scan"
    /\ idx > Len(offsets)
    /\ cropW >= 1 /\ cropH >= 1 /\ targetW >= 1
    /\ box' = WindowAt(wide, bestOff, cropW, cropH)
    /\ outcome' = "image"
    /\ pc' = "done"
    /\ UNCHANGED <<sizeVars, cropVars, path, scanVars, zipVars>>

\* lines 65 or 77, and 79, with an empty crop or an empty target: whether
\* Pillow's crop and resize raise there or return an image is Pillow's
\* choice, not this file's
CropAndResizeEmpty ==
    /\ pc = "scan"
    /\ idx > Len(offsets)
    /\ ~(cropW >= 1 /\ cropH >= 1 /\ targetW >= 1)
    /\ box' = WindowAt(wide, bestOff, cropW, cropH)
    /\ \E o \in {"image", "ValueError"} : outcome' = o
    /\ pc' = "done"
    /\ UNCHANGED <<sizeVars, cropVars, path, scanVars, zipVars>>

Next ==
    \/ DivideByZero
    \/ ComputeCrop
    \/ FastPath
    \/ BeginSearch
    \/ ScoreCandidate
    \/ CropAndResize
    \/ CropAndResizeEmpty

Spec == Init /\ [][Next]_vars

(***************************************************************************)
(* np.linspace as smart_crop_resize calls it, for every max_offset.        *)
(***************************************************************************)
InitLinspace ==
    /\ pc = "linspace"
    /\ maxOffset \in 0..MaxMaxOffset
    /\ srcW = 1 /\ srcH = 1 /\ targetW = 1 /\ targetH = 1
    /\ NoCrop /\ NoResult /\ NoZip
    /\ img = "none" /\ offsets = <<>> /\ idx = 0
    /\ bestOff = 0 /\ bestScore = NegInf /\ scores = <<>>

\* lines 56 and 68
ComputeOffsets ==
    /\ pc = "linspace"
    /\ offsets' = Linspace(maxOffset)
    /\ pc' = "offsets"
    /\ UNCHANGED <<sizeVars, cropVars, path, img, maxOffset, idx, bestOff,
                   bestScore, scores, box, outcome, zipVars>>

NextLinspace == ComputeOffsets

SpecLinspace == InitLinspace /\ [][NextLinspace]_vars

(***************************************************************************)
(* build_zip(images)                                                       *)
(***************************************************************************)
InitZip ==
    /\ pc = "zip"
    /\ images \in ResultSets
    /\ zf = <<>>
    /\ srcW = 1 /\ srcH = 1 /\ targetW = 1 /\ targetH = 1
    /\ NoCrop /\ NoScan /\ NoResult

\* one iteration of the loop, lines 85-88
WriteEntry ==
    /\ pc = "zip"
    /\ Len(zf) < Len(images)
    /\ LET item == images[Len(zf) + 1]
       IN  zf' = Append(zf, [name |-> EntryName(item.label),
                             data |-> PngBytes(item.image)])
    /\ UNCHANGED <<pc, sizeVars, cropVars, path, scanVars, box, outcome, images>>

\* lines 89-90, after the loop
CloseZip ==
    /\ pc = "zip"
    /\ Len(zf) = Len(images)
    /\ pc' = "zipped"
    /\ UNCHANGED <<sizeVars, cropVars, path, scanVars, box, outcome, zipVars>>

NextZip == WriteEntry \/ CloseZip

SpecZip == InitZip /\ [][NextZip]_vars

(***************************************************************************)
(* The properties.                                                         *)
(***************************************************************************)
Positive == targetW >= 1 /\ targetH >= 1

\* the aspect ratios of source and target are equal
EqualRatios == srcW * targetH = srcH * targetW

Contained(win) ==
    /\ 0 <= win.x /\ 0 <= win.y
    /\ win.x + win.w <= srcW /\ win.y + win.h <= srcH

\* a >= b on floats: false when either side is NaN
ScoreGeq(a, b) == a.kind = "num" /\ b.kind = "num" /\ a.v >= b.v

\* the luminance array of the k-th candidate of the scan
CandidateRegion(k) == Region(img, srcW, srcH, wide, offsets[k], cropW, cropH)

Distinct(q) == \A i, j \in 1..Len(q) : i # j => q[i] # q[j]

\* C1: for positive source and target sizes, the crop window of every
\* candidate offset and the window the result is resampled from (the full
\* source on the fast path, the window at the winning offset otherwise) lie
\* inside the source: 0 <= x, 0 <= y, x + cropW <= srcW, y + cropH <= srcH.
C1_CropWindowContained ==
    Positive =>
        /\ path = "search" =>
              \A k \in 1..Len(offsets) :
                  Contained(WindowAt(wide, offsets[k], cropW, cropH))
        /\ box # NoWindow => Contained(box)

\* a search along the x-axis that ends at a winning offset right of 0
C1_Witness ==
    /\ pc = "done" /\ Positive /\ path = "search"
    /\ wide /\ cropW >= 1 /\ bestOff >= 1
    /\ box = [x |-> bestOff, y |-> 0, w |-> cropW, h |-> srcH]

\* C2: for positive sizes with equal aspect ratios the computed crop is the
\* full source, nothing is scored, and the result is the resample of the
\* full source.
C2_EqualRatiosTakeFastPath ==
    Positive /\ EqualRatios =>
        /\ pc # "call" => cropW = srcW /\ cropH = srcH
        /\ scores = <<>>
        /\ pc = "done" =>
              path = "fast" /\ box = FullWindow(srcW, srcH) /\ outcome = "image"

\* C3: on the search path, after any prefix of the candidates has been
\* scored, the tracked best score is the maximum of the scores seen and the
\* tracked offset is the first (lowest) candidate that reached it; so is
\* the winning offset when the scan has finished.
C3_BestIsFirstMaximum ==
    Positive /\ path = "search" /\ scores # <<>> =>
        \E k \in 1..Len(scores) :
            /\ offsets[k] = bestOff
            /\ scores[k] = bestScore
            /\ \A j \in 1..Len(scores) : ScoreGeq(scores[k], scores[j])
            /\ \A j \in 1..Len(scores) :
                   ScoreGeq(scores[j], scores[k]) => offsets[k] <= offsets[j]

\* C4: with targetW <= 0 or targetH <= 0 the call is rejected at once:
\* nothing is scored, no crop is extracted, no image is returned.
C4_NonPositiveTargetRejected ==
    targetW <= 0 \/ targetH <= 0 =>
        /\ scores = <<>>
        /\ box = NoWindow
        /\ outcome # "image"
        /\ pc = "done" => outcome # "none"

\* C5: when the computed crop window has zero width or zero height the call
\* fails fast: no empty region is scored and no image is returned.
C5_EmptyCropFailsFast ==
    Positive /\ pc # "call" /\ targetH # 0 /\ (cropW = 0 \/ cropH = 0) =>
        /\ scores = <<>>
        /\ box = NoWindow
        /\ outcome # "image"

\* a label in lower case: of the alphabet only "S" has another lower case
Folded(label) == [j \in 1..Len(label) |-> IF label[j] = "S" THEN "s" ELSE label[j]]

\* the name and the bytes of the i-th entry are those of the i-th result
EntryMatches(i) ==
    /\ zf[i].name = Folded(images[i].label) \o <<".", "p", "n", "g">>
    /\ zf[i].data = [format |-> "PNG", pixels |-> images[i].image]

EntryNames == [i \in 1..Len(zf) |-> zf[i].name]

\* C6, as stated: the archive holds one entry per result, in iteration
\* order, the i-th named the lowercased i-th label followed by ".png" and
\* holding its image; and the n entry names are distinct.
C6_EntriesWithDistinctNames ==
    /\ Len(zf) <= Len(images)
    /\ \A i \in 1..Len(zf) : EntryMatches(i)
    /\ pc = "zipped" => Len(zf) = Len(images) /\ Distinct(EntryNames)

\* C6, amended: the archive holds one entry per result, in iteration order,
\* the i-th named the lowercased i-th label followed by ".png" and holding
\* its image; the n entry names are distinct exactly when the labels are
\* distinct after lowercasing.
C6_EntriesInOrder ==
    /\ Len(zf) <= Len(images)
    /\ \A i \in 1..Len(zf) : EntryMatches(i)
    /\ pc = "zipped" =>
          /\ Len(zf) = Len(images)
          /\ Distinct(EntryNames) <=>
                 Distinct([i \in 1..Len(images) |-> Folded(images[i].label)])

\* an archive of two results whose labels differ in case only
C6_Witness ==
    /\ pc = "zipped" /\ Len(zf) = 2
    /\ images[1].label # images[2].label
    /\ zf[1].name = zf[2].name

\* C7: every non-empty region whose pixels all have the same value scores
\* exactly 0.
C7_UniformRegionScoresZero ==
    \A k \in 1..Len(scores) :
        LET arr == CandidateRegion(k)
        IN  Cardinality({arr[q] : q \in DOMAIN arr}) = 1 => scores[k] = Num(0)

\* C8: the candidates are min(25, maxOffset + 1) integers, the k-th (from
\* 0) being floor(k * maxOffset / (n - 1)), the only one being 0 when
\* n = 1; all lie in 0..maxOffset, the first is 0 and the last maxOffset.
C8_OffsetsEvenlySpaced ==
    pc = "offsets" =>
        LET n == Len(offsets)
        IN  /\ n = (IF maxOffset + 1 < 25 THEN maxOffset + 1 ELSE 25)
            /\ n = 1 => offsets = <<0>>
            /\ n > 1 => \A k \in 0..(n - 1) :
                            offsets[k + 1] = (k * maxOffset) \div (n - 1)
            /\ \A k \in 1..n : 0 <= offsets[k] /\ offsets[k] <= maxOffset
            /\ offsets[1] = 0 /\ offsets[n] = maxOffset

\* C9: for positive sizes the fast path is taken only when the aspect
\* ratios are equal; with unequal ratios the search path is entered, and on
\* the search path maxOffset >= 1 and at least two candidates are scored.
C9_FastPathOnlyOnEqualRatios ==
    Positive =>
        /\ pc # "call" /\ cropW = srcW /\ cropH = srcH => EqualRatios
        /\ path = "fast" => EqualRatios
        /\ ~EqualRatios /\ pc \in {"scan", "done"} => path = "search"
        /\ path = "search" => maxOffset >= 1 /\ Len(offsets) >= 2
        /\ path = "search" /\ pc = "done" => Len(scores) >= 2

\* a finished search over unequal ratios whose crop is one pixel short of
\* the source
C9_Witness ==
    /\ pc = "done" /\ Positive /\ ~EqualRatios /\ path = "search"
    /\ maxOffset = 1 /\ Len(scores) = 2

\* C10: for every maxOffset >= 1 the candidate offsets are strictly
\* increasing, so no offset is scored twice and the first candidate with a
\* score is the lowest one.
C10_OffsetsStrictlyIncreasing ==
    pc = "offsets" /\ maxOffset >= 1 =>
        \A k \in 1..(Len(offsets) - 1) : offsets[k] < offsets[k + 1]

\* the cap of 25 candidates in effect, with a step that is no integer
C10_Witness ==
    /\ pc = "offsets" /\ maxOffset > MaxCandidates
    /\ Len(offsets) = MaxCandidates
    /\ \E k \in 2..(MaxCandidates - 1) :
           offsets[k + 1] - offsets[k] # offsets[2] - offsets[1]

=============================================================================
